---------------------------- MODULE Spec2Model ----------------------------
(***************************************************************************)
(* A model of the build-tracker command line tool nex_nbp/cli.py:          *)
(* NBPCommandContext (app resolution, branch and workflow initialisation)  *)
(* and the trigger, download and memo commands.                            *)
(*                                                                         *)
(* Python strings are sequences of one-character strings, so that lower(), *)
(* replace(" ", "") and find() are computed character by character.       *)
(* Python's None is NoneStr for an Optional[str], 0 for an Optional entry  *)
(* (entries are identified by their 1-based position in the fetched list)  *)
(* and "None" for an Optional[bool] (beside "True" and "False").           *)
(***************************************************************************)
EXTENDS Integers, Sequences, FiniteSets, TLC

VARIABLES
    pc,             \* position of the running command
    apps,           \* the list returned by fetch_all_apps()
    app_name,       \* NBPCommandContext._app_name
    git_info,       \* NBPCommandContext.git_info (NoGit when GitInfo.create() gave None)
    app_entry,      \* the entry found (position in apps), 0 for None
    usage_error,    \* the click.UsageError raised by the command, NoError when none
    args,           \* the parameters the running command was called with
    _branch,        \* NBPCommandContext._branch
    branch,         \* the cached property NBPCommandContext.branch, Unset until read
    _workflows,     \* NBPCommandContext._workflows
    suffixes,       \* the list _compute_suffixes returned
    stderr,         \* the lines echoed with err=True
    stdout,         \* the lines echoed to standard output
    requests,       \* the calls made to BitriseClient.build, in order
    responses,      \* the status codes BitriseClient.build returned, in order
    index_calls,    \* builds_apk: the calls made to the build index to select builds
    build_entries,  \* builds_apk: the builds selected for download (build numbers)
    files,          \* the output directory: file name -> the bytes it holds
    started,        \* the builds whose download was started, in order
    outcomes,       \* how each finished download ended, in order
    received,       \* the non-empty chunks the running download received so far
    records,        \* the build index: build number -> memo
    fetched,        \* builds_memo: the list fetch_builds returned
    template,       \* builds_memo: the text the editor was opened with
    memo,           \* builds_memo: the text click.edit returned, Unset before
    add_memo_calls  \* the calls made to BitriseIndexClient.add_memo

resolveVars == <<apps, app_name, git_info, app_entry>>

contextVars == <<args, _branch, branch, _workflows, suffixes, stderr>>

triggerVars == <<stdout, requests, responses>>

downloadVars == <<index_calls, build_entries, files, started, outcomes, received>>

memoVars == <<records, fetched, template, memo, add_memo_calls>>

vars == <<pc, usage_error, resolveVars, contextVars, triggerVars, downloadVars,
          memoVars>>

-----------------------------------------------------------------------------
(* Bounds of the model *)

MaxNameLen == 3

MaxApps == 2

MaxTargets == 2

\* The most builds one download command selects
MaxBuilds == 2

\* The most bytes iter_content yields at a time (chunk_size, scaled down)
MaxChunk == 2

-----------------------------------------------------------------------------
(* Python str operations *)

\* None where a string made of characters is expected (app_name)
NoneStr == <<"<None>">>

\* None where a string compared as a whole is expected (URL, branch)
None == "<None>"

\* A cached_property that was not read yet
Unset == "<unset>"

\* No click.UsageError was raised
NoError == [msg |-> "", name |-> NoneStr, url |-> None]

\* click.UsageError(msg), with the app name or the git URL the message quotes
UsageError(msg, name, url) == [msg |-> msg, name |-> name, url |-> url]

\* GitInfo.create() returned None: not inside a git repository
NoGit == [present |-> FALSE, remote_url |-> None, remote_name |-> None]

GitInfo(url, name) == [present |-> TRUE, remote_url |-> url, remote_name |-> name]

UpperCase == <<"A","B","C","D","E","F","G","H","I","J","K","L","M",
               "N","O","P","Q","R","S","T","U","V","W","X","Y","Z">>

LowerCase == <<"a","b","c","d","e","f","g","h","i","j","k","l","m",
               "n","o","p","q","r","s","t","u","v","w","x","y","z">>

\* str.lower() on one character
LowerChar(c) ==
    IF \E i \in DOMAIN UpperCase : UpperCase[i] = c
    THEN LowerCase[CHOOSE i \in DOMAIN UpperCase : UpperCase[i] = c]
    ELSE c

\* str.lower()
lower(s) == [i \in 1..Len(s) |-> LowerChar(s[i])]

IsNotSpace(c) == c # " "

\* str.replace(" ", "")
replace_spaces(s) == SelectSeq(s, IsNotSpace)

\* str.find(sub, start): the lowest 0-based index i >= start at which sub
\* occurs in s, -1 when there is none (a negative start counts from the end).
find(s, sub, start) ==
    LET from == IF start >= 0 THEN start
                ELSE IF Len(s) + start >= 0 THEN Len(s) + start ELSE 0
        hits == {i \in from..(Len(s) - Len(sub)) :
                    \A j \in 1..Len(sub) : s[i + j] = sub[j]}
    IN  IF hits = {} THEN -1
        ELSE CHOOSE i \in hits : \A k \in hits : i <= k

-----------------------------------------------------------------------------
(* NBPCommandContext._find_app_entry_by_app_name *)

\* "for app in apps: if <test>: return app": the position of the first
\* entry from position i on that passes the test, 0 when the loop falls through.
RECURSIVE first_code_match(_, _, _)
first_code_match(as, name, i) ==
    IF i > Len(as) THEN 0
    ELSE IF lower(as[i].app_code) = name THEN i
    ELSE first_code_match(as, name, i + 1)

RECURSIVE first_title_match(_, _, _)
first_title_match(as, name, i) ==
    IF i > Len(as) THEN 0
    ELSE IF find(lower(as[i].title), name, 0) # -1 THEN i
    ELSE first_title_match(as, name, i + 1)

RECURSIVE first_nospace_match(_, _, _)
first_nospace_match(as, name, i) ==
    IF i > Len(as) THEN 0
    ELSE IF find(replace_spaces(lower(as[i].title)), name, 0) # -1 THEN i
    ELSE first_nospace_match(as, name, i + 1)

\* "for ch in app_name: pos = title.find(ch, pos + 1); if pos == -1: break
\*  else: return app": TRUE when the inner loop ends without break.
\* The inner loop searching every character from the start of the title.
RECURSIVE same_sequence_unordered(_, _, _, _)
same_sequence_unordered(title, name, k, pos) ==
    IF k > Len(name) THEN TRUE
    ELSE LET p == find(title, <<name[k]>>, 0)
         IN  IF p = -1 THEN FALSE
             ELSE same_sequence_unordered(title, name, k + 1, p)

RECURSIVE same_sequence(_, _, _, _)
same_sequence(title, name, k, pos) ==
    IF k > Len(name) THEN TRUE
    ELSE LET p == find(title, <<name[k]>>, pos + 1)
         IN  IF p = -1 THEN FALSE
             ELSE same_sequence(title, name, k + 1, p)

RECURSIVE first_sequence_match(_, _, _)
first_sequence_match(as, name, i) ==
    IF i > Len(as) THEN 0
    ELSE IF same_sequence(replace_spaces(lower(as[i].title)), name, 1, -1) THEN i
    ELSE first_sequence_match(as, name, i + 1)

\* A single pass that accepts an entry on its code or on its title.
_find_app_entry_by_app_name_one_pass(as, name) ==
    LET n1 == lower(name)
        n2 == replace_spaces(n1)
        Hit(i) == \/ lower(as[i].app_code) = n1
                  \/ find(lower(as[i].title), n1, 0) # -1
                  \/ find(replace_spaces(lower(as[i].title)), n2, 0) # -1
                  \/ same_sequence(replace_spaces(lower(as[i].title)), n2, 1, -1)
        hits == {i \in 1..Len(as) : Hit(i)}
    IN  IF hits = {} THEN 0 ELSE CHOOSE i \in hits : \A k \in hits : i <= k

_find_app_entry_by_app_name(as, name) ==
    LET n1 == lower(name)
        n2 == replace_spaces(n1)
        r1 == first_code_match(as, n1, 1)
        r2 == first_title_match(as, n1, 1)
        r3 == first_nospace_match(as, n2, 1)
        r4 == first_sequence_match(as, n2, 1)
    IN  IF r1 # 0 THEN r1
        ELSE IF r2 # 0 THEN r2
        ELSE IF r3 # 0 THEN r3
        ELSE r4

-----------------------------------------------------------------------------
(* The inputs of app resolution *)

App(code, title, url) ==
    [app_code |-> code, title |-> title, repo_url |-> url, slug |-> "slug-" \o url]

\* The AppEntry values fetch_all_apps() draws its list from
AppPool ==
    { App(<<"a">>,      <<"B", " ", "b">>,                     "u1"),
      App(<<"a", "B">>, <<"A">>,                               "u2"),
      App(<<"b">>,      <<"a", " ", "B", " ", "a">>,           "u1"),
      App(<<"b", "a">>, <<"a", "B", "b">>,                     "u3"),
      App(<<"b", "b">>, <<"b", " ", "a", " ", "a", " ", "b">>, "u2") }

SeqsUpTo(S, n) == UNION {[1..k -> S] : k \in 0..n}

AppLists == SeqsUpTo(AppPool, MaxApps)

NameChars == {"a", "A", "b", " "}

Names == SeqsUpTo(NameChars, MaxNameLen)

\* The worked cases of the specification
SkApps ==
    << App(<<"s", "k">>,      <<"S", "k", "y", " ", "A", "p", "p">>, "u1"),
       App(<<"s", "k", "y">>, <<"S", "K", " ", "A", "p", "p">>,      "u2") >>

OlympiaApps ==
    << App(<<"r", "e", "t", "a", "i", "l">>,
           <<"O", "l", "y", "m", "p", "i", "a", " ", "R", "e", "t", "a", "i", "l",
             " ", "D", "e", "m", "o">>, "u1") >>

WorkedCases ==
    { <<SkApps, <<"S", "K">>>>,
      <<OlympiaApps, <<"o", "r", "d">>>>,
      <<OlympiaApps, <<"d", "r", "o">>>> }

NameCases == (AppLists \X Names) \cup WorkedCases

IdleResolve ==
    /\ apps = <<>>
    /\ app_name = NoneStr
    /\ git_info = NoGit
    /\ app_entry = 0

NoArgs == [command |-> "none"]

IdleTrigger ==
    /\ stdout = <<>>
    /\ requests = <<>>
    /\ responses = <<>>

IdleDownload ==
    /\ index_calls = <<>>
    /\ build_entries = <<>>
    /\ files = <<>>
    /\ started = <<>>
    /\ outcomes = <<>>
    /\ received = <<>>

IdleMemo ==
    /\ records = <<>>
    /\ fetched = <<>>
    /\ template = ""
    /\ memo = Unset
    /\ add_memo_calls = <<>>

\* NBPCommandContext.__init__: no branch, no workflows, nothing echoed
FreshContext ==
    /\ _branch = None
    /\ branch = Unset
    /\ _workflows = <<>>
    /\ suffixes = <<>>
    /\ stderr = <<>>

-----------------------------------------------------------------------------
(* SpecName: _find_app_entry_by_app_name applied to every bounded input *)

InitName ==
    /\ pc = "start"
    /\ usage_error = NoError
    /\ \E c \in NameCases : apps = c[1] /\ app_name = c[2]
    /\ git_info = NoGit
    /\ app_entry = 0
    /\ args = NoArgs
    /\ FreshContext
    /\ IdleTrigger
    /\ IdleDownload
    /\ IdleMemo

FindByName ==
    /\ pc = "start"
    /\ app_entry' = _find_app_entry_by_app_name(apps, app_name)
    /\ pc' = "done"
    /\ UNCHANGED <<apps, app_name, git_info, usage_error, contextVars, triggerVars,
                   downloadVars, memoVars>>

NextName == FindByName

SpecName == InitName /\ [][NextName]_vars

-----------------------------------------------------------------------------
(* The four stages, stated on their own *)

SameIgnoringCase(a, b) ==
    /\ Len(a) = Len(b)
    /\ \A i \in 1..Len(a) : LowerChar(a[i]) = LowerChar(b[i])

IsSubstring(a, b) ==
    \E i \in 1..(Len(b) + 1) :
        /\ i + Len(a) - 1 <= Len(b)
        /\ \A j \in 1..Len(a) : b[i + j - 1] = a[j]

\* The characters of a occur in b at strictly increasing positions
IsSubsequence(a, b) ==
    \E f \in [1..Len(a) -> 1..Len(b)] :
        /\ \A k \in 1..Len(a) : b[f[k]] = a[k]
        /\ \A k \in 1..(Len(a) - 1) : f[k] < f[k + 1]

StageMatch(stage, app, name) ==
    CASE stage = 1 -> SameIgnoringCase(app.app_code, name)
      [] stage = 2 -> IsSubstring(lower(name), lower(app.title))
      [] stage = 3 -> IsSubstring(replace_spaces(lower(name)),
                                  replace_spaces(lower(app.title)))
      [] stage = 4 -> IsSubsequence(replace_spaces(lower(name)),
                                    replace_spaces(lower(app.title)))

StageHits(stage, as, name) == {i \in 1..Len(as) : StageMatch(stage, as[i], name)}

Least(S) == CHOOSE x \in S : \A y \in S : x <= y

\* The first entry of the earliest stage that matches any entry, 0 when none does
StagedResult(as, name) ==
    LET stages == {s \in 1..4 : StageHits(s, as, name) # {}}
    IN  IF stages = {} THEN 0
        ELSE Least(StageHits(Least(stages), as, name))

\* C1: the name resolves to the first entry, in list order, of the earliest of
\* the four stages (code equality, title substring, substring with spaces
\* stripped, subsequence) that matches any entry; an entry whose code equals the
\* name wins over an earlier entry matched by its title, and "SK" resolves to
\* the entry with code sk.
C1_StagedResolution ==
    pc = "done" =>
        /\ app_entry = StagedResult(apps, app_name)
        /\ StageHits(1, apps, app_name) # {} =>
                app_entry = Least(StageHits(1, apps, app_name))
        /\ (apps = SkApps /\ app_name = <<"S", "K">>) => app_entry = 1

\* An entry matched by code is returned although an earlier entry matches by title
C1_Witness ==
    /\ pc = "done"
    /\ Len(apps) = 2
    /\ app_entry = 2
    /\ StageMatch(1, apps[2], app_name)
    /\ ~StageMatch(1, apps[1], app_name)
    /\ StageMatch(2, apps[1], app_name)

NoEarlierStage(as, name) == \A s \in 1..3 : StageHits(s, as, name) = {}

\* C2: when no entry matches at the first three stages, an entry is accepted
\* exactly when the characters of the name (lower-cased, spaces stripped) occur
\* in its title (lower-cased, spaces stripped) in order at strictly increasing
\* positions; "ord" resolves to "Olympia Retail Demo" and "dro" to no entry.
C2_SubsequenceFallback ==
    pc = "done" =>
        /\ NoEarlierStage(apps, app_name) =>
              /\ app_entry # 0 <=> StageHits(4, apps, app_name) # {}
              /\ app_entry # 0 => app_entry \in StageHits(4, apps, app_name)
        /\ (apps = OlympiaApps /\ app_name = <<"o", "r", "d">>) => app_entry = 1
        /\ (apps = OlympiaApps /\ app_name = <<"d", "r", "o">>) => app_entry = 0

\* An entry found by the subsequence stage alone, its characters not contiguous
C2_Witness ==
    /\ pc = "done"
    /\ app_entry # 0
    /\ NoEarlierStage(apps, app_name)
    /\ Len(replace_spaces(app_name)) >= 2

-----------------------------------------------------------------------------
(* NBPCommandContext._find_app_entry_by_git and _find_app_entry *)

RECURSIVE first_url_match(_, _, _)
first_url_match(as, remote_url, i) ==
    IF i > Len(as) THEN 0
    ELSE IF as[i].repo_url = remote_url THEN i
    ELSE first_url_match(as, remote_url, i + 1)

_find_app_entry_by_git(as, git) == first_url_match(as, git.remote_url, 1)

Found(i) == [entry |-> i, error |-> NoError]

Raised(e) == [entry |-> 0, error |-> e]

\* The name lookup falling back on the git remote when no name matches.
_find_app_entry_git_fallback(as, git, name) ==
    LET by_name == IF name # NoneStr THEN _find_app_entry_by_app_name(as, name) ELSE 0
        by_git  == IF git.present THEN _find_app_entry_by_git(as, git) ELSE 0
    IN  IF by_name # 0 THEN Found(by_name)
        ELSE IF by_git # 0 THEN Found(by_git)
        ELSE Raised(UsageError("Could not find app on bitrise", name, git.remote_url))

\* The entry returned, or the click.UsageError raised
_find_app_entry(as, git, name) ==
    IF name # NoneStr
    THEN LET e == _find_app_entry_by_app_name(as, name)
         IN  IF e = 0
             THEN Raised(UsageError("Could not find app on bitrise matching",
                                    name, None))
             ELSE Found(e)
    ELSE IF ~git.present
         THEN Raised(UsageError(
                  "Please run inside a git repository to use auto app discovery.",
                  NoneStr, None))
         ELSE LET e == _find_app_entry_by_git(as, git)
              IN  IF e = 0
                  THEN Raised(UsageError(
                           "Could not find app on bitrise matching git url",
                           NoneStr, git.remote_url))
                  ELSE Found(e)

-----------------------------------------------------------------------------
(* SpecFind: the app_entry property, over app lists, git states and names *)

GitInfos == {NoGit, GitInfo("u1", None), GitInfo("u3", None), GitInfo("u9", None)}

FindNames ==
    { NoneStr, <<"a">>, <<"b", "b">>, <<"A", " ", "a">>, <<"b", "b", "b">>, <<"x">> }

InitFind ==
    /\ pc = "start"
    /\ usage_error = NoError
    /\ apps \in AppLists
    /\ app_name \in FindNames
    /\ git_info \in GitInfos
    /\ app_entry = 0
    /\ args = NoArgs
    /\ FreshContext
    /\ IdleTrigger
    /\ IdleDownload
    /\ IdleMemo

\* NBPCommandContext.app_entry: fetch_all_apps(), then _find_app_entry
AppEntry ==
    /\ pc = "start"
    /\ LET r == _find_app_entry(apps, git_info, app_name)
       IN  /\ app_entry' = r.entry
           /\ usage_error' = r.error
           /\ pc' = IF r.error = NoError THEN "done" ELSE "failed"
    /\ UNCHANGED <<apps, app_name, git_info, contextVars, triggerVars,
                   downloadVars, memoVars>>

NextFind == AppEntry

SpecFind == InitFind /\ [][NextFind]_vars

UrlHits(as, git) == {i \in 1..Len(as) : as[i].repo_url = git.remote_url}

\* C5: _find_app_entry returns a member of the fetched list or raises a usage
\* error, never None. With an app name only the name decides (no match at the
\* four stages is an error quoting the name, whatever the git remote); without
\* one, the first entry whose repository URL equals the git remote URL is
\* returned, and no equal URL or no git repository is an error.
C5_EntryOrUsageError ==
    pc # "start" =>
        /\ pc = "done" <=> usage_error = NoError
        /\ pc = "done" => app_entry \in 1..Len(apps)
        /\ pc = "failed" => app_entry = 0
        /\ app_name # NoneStr =>
              /\ app_entry = StagedResult(apps, app_name)
              /\ pc = "failed" => usage_error.name = app_name
        /\ app_name = NoneStr =>
              /\ pc = "done" <=> (git_info.present /\ UrlHits(apps, git_info) # {})
              /\ pc = "done" => app_entry = Least(UrlHits(apps, git_info))
              /\ (pc = "failed" /\ git_info.present) =>
                    usage_error.url = git_info.remote_url

\* A name that matches nothing is an error although the git remote names an entry
C5_Witness ==
    /\ pc = "failed"
    /\ app_name # NoneStr
    /\ git_info.present
    /\ UrlHits(apps, git_info) # {}
    /\ usage_error.name = app_name

-----------------------------------------------------------------------------
(* NBPCommandContext._compute_suffixes *)

\* Python truth of an Optional[bool]: None and False are false
Truthy(flag) == flag = "True"

OptBool == {"None", "True", "False"}

Returned(list) == [value |-> list, error |-> NoError]

RaisedUsage(msg) == [value |-> <<>>, error |-> UsageError(msg, NoneStr, None)]

\* The default applied whenever staging is unset, whatever production is.
_compute_suffixes_default_always(staging, production) ==
    LET stag == IF staging = "None" THEN "True" ELSE staging
        list == (IF Truthy(stag) THEN <<"stag">> ELSE <<>>)
                \o (IF Truthy(production) THEN <<"prod">> ELSE <<>>)
    IN  IF list = <<>>
        THEN RaisedUsage("No staging nor production, bailing out.")
        ELSE Returned(list)

\* The default applied whenever staging is not set to true.
_compute_suffixes_default_unless_true(staging, production) ==
    LET stag == IF ~Truthy(staging) /\ ~Truthy(production) THEN "True" ELSE staging
        list == (IF Truthy(stag) THEN <<"stag">> ELSE <<>>)
                \o (IF Truthy(production) THEN <<"prod">> ELSE <<>>)
    IN  IF list = <<>>
        THEN RaisedUsage("No staging nor production, bailing out.")
        ELSE Returned(list)

_compute_suffixes(staging, production) ==
    LET stag == IF staging = "None" /\ ~Truthy(production) THEN "True" ELSE staging
        list == (IF Truthy(stag) THEN <<"stag">> ELSE <<>>)
                \o (IF Truthy(production) THEN <<"prod">> ELSE <<>>)
    IN  IF list = <<>>
        THEN RaisedUsage("No staging nor production, bailing out.")
        ELSE Returned(list)

-----------------------------------------------------------------------------
(* NBPCommandContext._WORKFLOW_MAP and initialize_workflows *)

_WORKFLOW_MAP ==
    ("olympia#-#stag" :> "build_olympia_apk_staging") @@
    ("olympia#-#prod" :> "build_olympia_apk_production") @@
    ("sk#-#stag"      :> "build_sk_apk_staging") @@
    ("sk#-#prod"      :> "build_sk_apk_production") @@
    ("sky#-#stag"     :> "build_android_apk_sky_beta_staging") @@
    ("sky#-#prod"     :> "build_android_apk_sky_beta") @@
    ("retail#-#stag"  :> "build_olympia_retail_demo_stag") @@
    ("retail#-#prod"  :> "build_olympia_retail_demo_prod")

\* f"{target}#-#{suffix}"
workflow_key(target, suffix) == target \o "#-#" \o suffix

\* f"Cannot identify workflow id for {target} {suffix}"
cannot_identify(target, suffix) ==
    "Cannot identify workflow id for " \o target \o " " \o suffix

\* The loops giving up at the first pair that is not in the table.
RECURSIVE workflow_loop_stops_at_miss(_, _, _, _)
workflow_loop_stops_at_miss(ts, ss, t, s) ==
    IF t > Len(ts) THEN [workflows |-> <<>>, warnings |-> <<>>]
    ELSE IF s > Len(ss) THEN workflow_loop_stops_at_miss(ts, ss, t + 1, 1)
    ELSE LET key  == workflow_key(ts[t], ss[s])
             rest == workflow_loop_stops_at_miss(ts, ss, t, s + 1)
         IN  IF key \notin DOMAIN _WORKFLOW_MAP
             THEN [workflows |-> <<>>,
                   warnings  |-> <<cannot_identify(ts[t], ss[s])>>]
             ELSE [workflows |-> <<_WORKFLOW_MAP[key]>> \o rest.workflows,
                   warnings  |-> rest.warnings]

\* The two nested loops from target t, suffix s on: the workflows appended and
\* the warnings echoed.
RECURSIVE workflow_loop(_, _, _, _)
workflow_loop(ts, ss, t, s) ==
    IF t > Len(ts) THEN [workflows |-> <<>>, warnings |-> <<>>]
    ELSE IF s > Len(ss) THEN workflow_loop(ts, ss, t + 1, 1)
    ELSE LET key  == workflow_key(ts[t], ss[s])
             rest == workflow_loop(ts, ss, t, s + 1)
         IN  IF key \notin DOMAIN _WORKFLOW_MAP
             THEN [workflows |-> rest.workflows,
                   warnings  |-> <<cannot_identify(ts[t], ss[s])>> \o rest.warnings]
             ELSE [workflows |-> <<_WORKFLOW_MAP[key]>> \o rest.workflows,
                   warnings  |-> rest.warnings]

resolve_workflows(ts, ss) == workflow_loop(ts, ss, 1, 1)

\* initialize_workflows(targets, staging, production) on the context
initialize_workflows(ts, staging, production) ==
    LET computed == _compute_suffixes(staging, production)
        resolved == resolve_workflows(ts, computed.value)
    IN  IF computed.error # NoError
        THEN /\ usage_error' = computed.error
             /\ UNCHANGED <<_workflows, suffixes, stderr>>
        ELSE /\ suffixes' = computed.value
             /\ _workflows' = _workflows \o resolved.workflows
             /\ stderr' = stderr \o resolved.warnings
             /\ UNCHANGED usage_error

-----------------------------------------------------------------------------
(* SpecWorkflows: initialize_workflows on a fresh context *)

\* The four choices of --target, and a name the table does not know
Targets == {"olympia", "sk", "sky", "retail", "other"}

TargetLists == SeqsUpTo(Targets, MaxTargets)

InitWorkflows ==
    /\ pc = "start"
    /\ usage_error = NoError
    /\ IdleResolve
    /\ \E ts \in TargetLists, st \in OptBool, pr \in OptBool :
          args = [command |-> "initialize_workflows",
                  targets |-> ts, staging |-> st, production |-> pr]
    /\ FreshContext
    /\ IdleTrigger
    /\ IdleDownload
    /\ IdleMemo

InitializeWorkflows ==
    /\ pc = "start"
    /\ initialize_workflows(args.targets, args.staging, args.production)
    /\ pc' = IF usage_error' = NoError THEN "done" ELSE "failed"
    /\ UNCHANGED <<resolveVars, args, _branch, branch, triggerVars,
                   downloadVars, memoVars>>

NextWorkflows == InitializeWorkflows

SpecWorkflows == InitWorkflows /\ [][NextWorkflows]_vars

Range(seq) == {seq[i] : i \in DOMAIN seq}

NoDuplicates(seq) == \A i, j \in DOMAIN seq : seq[i] = seq[j] => i = j

\* The statement of C3 as written: every pair of flags gives a non-empty list
\* of suffixes and the usage error never occurs.
C3_NeverEmpty ==
    pc # "start" =>
        /\ pc = "done"
        /\ suffixes # <<>>
        /\ Range(suffixes) \subseteq {"stag", "prod"}

\* C3 (amended): _compute_suffixes returns a non-empty list without repeats drawn
\* from {stag, prod}, or raises the "No staging nor production" usage error; it
\* raises exactly when staging is False and production is not True.
C3_NonEmptyOrUsageError ==
    pc # "start" =>
        /\ pc = "failed" <=> (args.staging = "False" /\ args.production # "True")
        /\ pc = "done" =>
              /\ suffixes # <<>>
              /\ Range(suffixes) \subseteq {"stag", "prod"}
              /\ NoDuplicates(suffixes)
              /\ usage_error = NoError
        /\ pc = "failed" =>
              usage_error.msg = "No staging nor production, bailing out."

\* --no-stag alone: nothing is selected and the usage error is raised
C3_Witness ==
    /\ pc = "failed"
    /\ args.staging = "False"
    /\ args.production = "None"
    /\ usage_error # NoError

\* C4: (None, None) gives {stag}; production=True with staging None or False
\* gives {prod}; staging=True with production None or False gives {stag};
\* staging=True and production=True gives {stag, prod}.
C4_TruthTable ==
    pc # "start" =>
        LET st == args.staging
            pr == args.production
            Gives(S) == pc = "done" /\ Range(suffixes) = S
                        /\ Len(suffixes) = Cardinality(S)
        IN  /\ (st = "None" /\ pr = "None") => Gives({"stag"})
            /\ (pr = "True" /\ st \in {"None", "False"}) => Gives({"prod"})
            /\ (st = "True" /\ pr \in {"None", "False"}) => Gives({"stag"})
            /\ (st = "True" /\ pr = "True") => Gives({"stag", "prod"})

\* --prod alone: staging is not defaulted once production is requested
C4_Witness ==
    /\ pc = "done"
    /\ args.staging = "None"
    /\ args.production = "True"
    /\ suffixes = <<"prod">>

\* The table holds the four targets with the two suffixes each
TableTargets == {"olympia", "sk", "sky", "retail"}

InTable(target, suffix) == target \in TableTargets /\ suffix \in {"stag", "prod"}

\* The pairs (target, suffix), target-major
Pairs(ts, ss) ==
    [k \in 1..(Len(ts) * Len(ss)) |->
        <<ts[((k - 1) \div Len(ss)) + 1], ss[((k - 1) % Len(ss)) + 1]>>]

PairInTable(pair) == InTable(pair[1], pair[2])

PairNotInTable(pair) == ~InTable(pair[1], pair[2])

\* C7: on a fresh context the workflow list is the table value of every pair
\* (target, suffix) that is in the 8-entry table, target-major, stag before
\* prod; a pair that is not in the table adds a warning and no element, and the
\* pairs after it are still resolved.
C7_WorkflowList ==
    /\ Cardinality(DOMAIN _WORKFLOW_MAP) = 8
    /\ DOMAIN _WORKFLOW_MAP =
          {workflow_key(t, s) : t \in TableTargets, s \in {"stag", "prod"}}
    /\ pc = "failed" => _workflows = <<>>
    /\ pc = "done" =>
          LET present == SelectSeq(Pairs(args.targets, suffixes), PairInTable)
              absent  == SelectSeq(Pairs(args.targets, suffixes), PairNotInTable)
          IN  /\ suffixes \in {<<"stag">>, <<"prod">>, <<"stag", "prod">>}
              /\ Len(_workflows) = Len(present)
              /\ \A k \in 1..Len(present) :
                    _workflows[k] =
                        _WORKFLOW_MAP[workflow_key(present[k][1], present[k][2])]
              /\ Len(stderr) = Len(absent)
              /\ \A k \in 1..Len(absent) :
                    stderr[k] = cannot_identify(absent[k][1], absent[k][2])

\* An unknown target is skipped and the target after it is still resolved
C7_Witness ==
    /\ pc = "done"
    /\ args.targets = <<"other", "sk">>
    /\ suffixes = <<"stag", "prod">>
    /\ _workflows = <<"build_sk_apk_staging", "build_sk_apk_production">>
    /\ Len(stderr) = 2

-----------------------------------------------------------------------------
(* NBPCommandContext.initialize_branch and the branch property *)

\* Python truth of an Optional[str]: None and "" are false
TruthyStr(str) == str # None /\ str # ""

Assigned(value) == [value |-> value, error |-> NoError]

\* The git branch preferred to the explicit one.
resolve_branch_git_first(branch_arg, use_git_branch, git, old) ==
    IF use_git_branch /\ git.present THEN Assigned(git.remote_name)
    ELSE IF TruthyStr(branch_arg) THEN Assigned(branch_arg)
    ELSE IF use_git_branch
         THEN [value |-> old,
               error |-> UsageError("Auto git branch is only valid inside a git repo.",
                                    NoneStr, None)]
         ELSE Assigned(None)

\* The value initialize_branch stores in _branch (old: the value it holds), or
\* the click.UsageError it raises
resolve_branch(branch_arg, use_git_branch, git, old) ==
    IF TruthyStr(branch_arg) THEN Assigned(branch_arg)
    ELSE IF use_git_branch
         THEN IF ~git.present
              THEN [value |-> old,
                    error |-> UsageError(
                        "Auto git branch is only valid inside a git repo.",
                        NoneStr, None)]
              ELSE Assigned(git.remote_name)
         ELSE Assigned(None)

\* initialize_branch(branch, use_git_branch) on the context
initialize_branch(branch_arg, use_git_branch) ==
    LET r == resolve_branch(branch_arg, use_git_branch, git_info, _branch)
    IN  /\ _branch' = r.value
        /\ usage_error' = r.error

-----------------------------------------------------------------------------
(* SpecBranch: initialize_branch on a fresh context, then the branch property *)

\* --branch: not given, empty, or a name
BranchArgs == {None, "", "main", "dev"}

BranchGitInfos ==
    {NoGit, GitInfo("u1", "main"), GitInfo("u1", "feat"), GitInfo("u1", "dev"),
     GitInfo("u1", None)}

InitBranch ==
    /\ pc = "start"
    /\ usage_error = NoError
    /\ apps = <<>>
    /\ app_name = NoneStr
    /\ app_entry = 0
    /\ git_info \in BranchGitInfos
    /\ \E b \in BranchArgs, g \in BOOLEAN :
          args = [command |-> "initialize_branch", branch |-> b, use_git_branch |-> g]
    /\ FreshContext
    /\ IdleTrigger
    /\ IdleDownload
    /\ IdleMemo

InitializeBranch ==
    /\ pc = "start"
    /\ initialize_branch(args.branch, args.use_git_branch)
    /\ pc' = IF usage_error' = NoError THEN "done" ELSE "failed"
    /\ UNCHANGED <<resolveVars, args, branch, _workflows, suffixes, stderr,
                   triggerVars, downloadVars, memoVars>>

\* NBPCommandContext.branch, read by a command once the branch is initialised
ReadBranch ==
    /\ pc = "done"
    /\ branch' = IF branch = Unset THEN _branch ELSE branch
    /\ pc' = "read"
    /\ UNCHANGED <<usage_error, resolveVars, args, _branch, _workflows, suffixes,
                   stderr, triggerVars, downloadVars, memoVars>>

NextBranch == InitializeBranch \/ ReadBranch

SpecBranch == InitBranch /\ [][NextBranch]_vars

\* The rules of C8 below the explicit branch: the git branch when asked for,
\* unset otherwise, a usage error outside a git repository
C8_GitOrUnset ==
    /\ (args.use_git_branch /\ git_info.present) =>
          (pc # "failed" /\ _branch = git_info.remote_name)
    /\ ~args.use_git_branch => (pc # "failed" /\ _branch = None)
    /\ (args.use_git_branch /\ ~git_info.present) =>
          (pc = "failed" /\ _branch = None /\ usage_error # NoError)

\* The statement of C8 as written: any explicit branch that was supplied wins.
C8_ExplicitAlwaysWins ==
    pc # "start" =>
        /\ args.branch # None => (pc # "failed" /\ _branch = args.branch)
        /\ args.branch = None => C8_GitOrUnset
        /\ pc = "read" => branch = _branch

\* C8 (amended): a non-empty explicit branch wins whatever use_git_branch and
\* the git state are; with no explicit branch, or an empty one, the branch is
\* the git-derived name when use_git_branch is set inside a git repository,
\* unset (None) when use_git_branch is not set, and with use_git_branch set
\* outside a git repository the call raises a usage error and leaves the stored
\* branch as it was. The branch property then reads the stored branch.
C8_BranchPriority ==
    pc # "start" =>
        /\ TruthyStr(args.branch) => (pc # "failed" /\ _branch = args.branch)
        /\ ~TruthyStr(args.branch) => C8_GitOrUnset
        /\ pc = "read" => branch = _branch

\* An explicit branch given with --git-branch inside a repository on another branch
C8_Witness ==
    /\ pc = "read"
    /\ args.branch = "main"
    /\ args.use_git_branch
    /\ git_info.present
    /\ git_info.remote_name = "feat"
    /\ branch = "main"

-----------------------------------------------------------------------------
(* The trigger command *)

\* The status codes BitriseClient.build may return
Statuses == {200, 201, 500}

\* The reason phrase and the response body that come with a status code
reason_of(status_code) ==
    CASE status_code = 200 -> "OK"
      [] status_code = 201 -> "Created"
      [] OTHER -> "Internal Server Error"

body_of(status_code) == "body-" \o reason_of(status_code)

\* response['build_number'] and response['build_url'] of a created build, by
\* its position among the requests of this command
build_number_of(k) == <<"101", "102", "103", "104", "105", "106", "107", "108">>[k]

build_url_of(k) == "https://app.bitrise.io/build/" \o build_number_of(k)

Echoed(out, err) == [out |-> out, err |-> err]

\* Any 2xx status taken for a success.
report_build_any_2xx(workflow_id, status_code, k) ==
    IF status_code >= 300
    THEN Echoed(<<"Triggering " \o workflow_id \o " ... FAILED">>,
                <<"REASON: " \o reason_of(status_code),
                  "RESPONSE: " \o body_of(status_code)>>)
    ELSE Echoed(<<"Triggering " \o workflow_id \o " ... SUCCESS: "
                      \o build_number_of(k),
                  "    " \o build_url_of(k)>>,
                <<>>)

\* The body of the loop after the k-th call of build() returned: the lines echoed
report_build(workflow_id, status_code, k) ==
    IF status_code # 201
    THEN Echoed(<<"Triggering " \o workflow_id \o " ... FAILED">>,
                <<"REASON: " \o reason_of(status_code),
                  "RESPONSE: " \o body_of(status_code)>>)
    ELSE Echoed(<<"Triggering " \o workflow_id \o " ... SUCCESS: "
                      \o build_number_of(k),
                  "    " \o build_url_of(k)>>,
                <<>>)

\* The lists fetch_all_apps() may return to a command
CommandApps ==
    { <<App(<<"a">>, <<"B", " ", "b">>, "u1")>>,
      <<App(<<"b">>, <<"a", " ", "B", " ", "a">>, "u2"),
        App(<<"a">>, <<"B", " ", "b">>, "u1")>> }

\* The values of --target a command is run with
CommandTargets == {"sk", "retail"}

\* --target is repeatable and never empty: without it click passes its default
CommandTargetLists == SeqsUpTo(CommandTargets, MaxTargets) \ {<<>>}

CommandNames == {NoneStr, <<"a">>, <<"x">>}

CommandGitInfos == {NoGit, GitInfo("u1", "feat")}

\* A fresh NBPCommandContext, nbp having stored --app-name in it
InitContext ==
    /\ pc = "start"
    /\ usage_error = NoError
    /\ apps \in CommandApps
    /\ app_name \in CommandNames
    /\ git_info \in CommandGitInfos
    /\ app_entry = 0
    /\ args = NoArgs
    /\ FreshContext
    /\ IdleTrigger
    /\ IdleDownload

InitTrigger == InitContext /\ IdleMemo

Fail(error) == pc' = "failed" /\ usage_error' = error

\* trigger up to its loop: context.app_entry, initialize_branch(branch) with
\* use_git_branch left at its default, initialize_workflows
Trigger ==
    /\ pc = "start"
    /\ \E b \in {None, "main"}, ts \in CommandTargetLists, st \in OptBool,
          pr \in OptBool,
          clean \in BOOLEAN :
          LET found    == _find_app_entry(apps, git_info, app_name)
              resolved == resolve_branch(b, TRUE, git_info, _branch)
              computed == _compute_suffixes(st, pr)
              listed   == resolve_workflows(ts, computed.value)
          IN  /\ args' = [command |-> "trigger", clean |-> clean]
              /\ app_entry' = found.entry
              /\ IF found.error # NoError
                 THEN /\ Fail(found.error)
                      /\ UNCHANGED <<_branch, _workflows, suffixes, stderr>>
                 ELSE IF resolved.error # NoError
                 THEN /\ Fail(resolved.error)
                      /\ UNCHANGED <<_branch, _workflows, suffixes, stderr>>
                 ELSE IF computed.error # NoError
                 THEN /\ Fail(computed.error)
                      /\ _branch' = resolved.value
                      /\ UNCHANGED <<_workflows, suffixes, stderr>>
                 ELSE /\ pc' = "trigger"
                      /\ _branch' = resolved.value
                      /\ suffixes' = computed.value
                      /\ _workflows' = _workflows \o listed.workflows
                      /\ stderr' = stderr \o listed.warnings
                      /\ UNCHANGED usage_error
    /\ UNCHANGED <<apps, app_name, git_info, branch, triggerVars, downloadVars,
                   memoVars>>

\* One turn of "for workflow_id in context.workflows": build() is called and its
\* status reported
TriggerBuild ==
    /\ pc = "trigger"
    /\ Len(requests) < Len(_workflows)
    /\ \E status_code \in Statuses :
          LET k           == Len(requests) + 1
              workflow_id == _workflows[k]
              read        == IF branch = Unset THEN _branch ELSE branch
              echoed      == report_build(workflow_id, status_code, k)
          IN  /\ branch' = read
              /\ requests' = Append(requests,
                                    [slug |-> apps[app_entry].slug,
                                     workflow_id |-> workflow_id,
                                     branch |-> read,
                                     clean |-> args.clean])
              /\ responses' = Append(responses, status_code)
              /\ stdout' = stdout \o echoed.out
              /\ stderr' = stderr \o echoed.err
    /\ UNCHANGED <<pc, usage_error, resolveVars, args, _branch, _workflows, suffixes,
                   downloadVars, memoVars>>

\* The loop has gone through the whole list: the command returns
TriggerReturn ==
    /\ pc = "trigger"
    /\ Len(requests) = Len(_workflows)
    /\ pc' = "done"
    /\ UNCHANGED <<usage_error, resolveVars, contextVars, triggerVars, downloadVars,
                   memoVars>>

NextTrigger == Trigger \/ TriggerBuild \/ TriggerReturn

SpecTrigger == InitTrigger /\ [][NextTrigger]_vars

\* The lines on standard output that start the report of a build
IsTriggerLine(line) == Len(line) >= 10 /\ SubSeq(line, 1, 10) = "Triggering"

\* The positions among the requests whose status was not 201
Failures == {k \in 1..Len(responses) : responses[k] # 201}

\* C6: one build request per element of the workflow list, in list order,
\* whatever the earlier statuses were: the command returns only when every
\* workflow was requested, a status other than 201 is reported FAILED with its
\* reason and response body, and a workflow is reported SUCCESS exactly when its
\* status is 201.
C6_OneRequestPerWorkflow ==
    pc \in {"trigger", "done"} =>
        LET reports == SelectSeq(stdout, IsTriggerLine)
            reasons == SelectSeq(stderr, LAMBDA l : SubSeq(l, 1, 7) = "REASON:")
            bodies  == SelectSeq(stderr, LAMBDA l : SubSeq(l, 1, 9) = "RESPONSE:")
        IN  /\ Len(requests) <= Len(_workflows)
            /\ Len(responses) = Len(requests)
            /\ Len(reports) = Len(requests)
            /\ pc = "done" => Len(requests) = Len(_workflows)
            /\ \A k \in 1..Len(requests) :
                  /\ requests[k].workflow_id = _workflows[k]
                  /\ requests[k].slug = apps[app_entry].slug
                  /\ requests[k].branch = _branch
                  /\ responses[k] = 201 <=>
                        reports[k] = "Triggering " \o _workflows[k]
                                     \o " ... SUCCESS: " \o build_number_of(k)
                  /\ responses[k] # 201 <=>
                        reports[k] = "Triggering " \o _workflows[k] \o " ... FAILED"
            /\ Len(reasons) = Cardinality(Failures)
            /\ Len(bodies) = Cardinality(Failures)

\* A request that failed is followed by the request for the next workflow
C6_Witness ==
    /\ pc = "done"
    /\ Len(requests) = 2
    /\ responses = <<500, 201>>
    /\ requests[2].workflow_id = _workflows[2]

-----------------------------------------------------------------------------
(* The download command, builds_apk *)

\* The build numbers the index knows
BuildNums == {1, 2, 3}

\* fetch_apk(app_code, build_num): the artifact descriptor of a build, with the
\* bytes its download_url serves (byte_size of them)
fetch_apk(build_num) ==
    CASE build_num = 1 ->
           [name |-> "app.apk", byte_size |-> 2, data |-> <<"a1", "a2">>]
      [] build_num = 2 ->
           [name |-> "app.apk", byte_size |-> 2, data |-> <<"b1", "b2">>]
      [] OTHER ->
           [name |-> "demo.apk", byte_size |-> 3, data |-> <<"c1", "c2", "c3">>]

\* The build index of a download: every build of BuildNums exists, without memo
ApkIndex == [b \in BuildNums |-> None]

\* The build numbers given on the command line: two that exist, one that does not
ArgNums == {1, 3, 4}

\* The workflows the targets of a command resolve to
CommandWorkflows ==
    {_WORKFLOW_MAP[workflow_key(t, s)] : t \in CommandTargets, s \in {"stag", "prod"}}

\* The completed builds of each workflow as the index lists them, the most
\* recent first: a workflow without builds, workflows listing the same build
LatestTables ==
    { [w \in CommandWorkflows |->
          CASE w = "build_sk_apk_staging"            -> <<3, 1>>
            [] w = "build_sk_apk_production"         -> <<2>>
            [] w = "build_olympia_retail_demo_stag"  -> <<>>
            [] OTHER                                 -> <<3>>],
      [w \in CommandWorkflows |->
          CASE w = "build_sk_apk_staging"            -> <<1>>
            [] w = "build_sk_apk_production"         -> <<1>>
            [] w = "build_olympia_retail_demo_stag"  -> <<2, 1>>
            [] OTHER                                 -> <<>>] }

\* list_latest_builds(app_code, branch, workflow, limit): the most recent
\* builds of the workflow, limit of them at most
list_latest_builds(table, workflow, limit) ==
    SubSeq(table[workflow], 1,
           IF Len(table[workflow]) < limit THEN Len(table[workflow]) ELSE limit)

\* fetch_builds(app_code, build): the builds among the given numbers that
\* exist, each once, in the order the index returns them
fetch_builds(index, build) ==
    {l \in SeqsUpTo(DOMAIN index, Cardinality(DOMAIN index)) :
        /\ Range(l) = Range(build) \cap DOMAIN index
        /\ \A i, j \in DOMAIN l : l[i] = l[j] => i = j}

\* build_entries = [] and build_num_set = set()
NoneSelected == [build_entries |-> <<>>, build_num_set |-> {}]

\* The inner loop appending every entry listed, seen before or not.
RECURSIVE add_every(_, _, _)
add_every(listed, i, sel) ==
    IF i > Len(listed) THEN sel
    ELSE add_every(listed, i + 1,
                   [build_entries |-> Append(sel.build_entries, listed[i]),
                    build_num_set |-> sel.build_num_set \cup {listed[i]}])

\* "for entry in <listed>: if entry.build_num not in build_num_set:
\*  build_entries.append(entry); build_num_set.add(entry.build_num)"
RECURSIVE add_unseen(_, _, _)
add_unseen(listed, i, sel) ==
    IF i > Len(listed) THEN sel
    ELSE IF listed[i] \notin sel.build_num_set
         THEN add_unseen(listed, i + 1,
                         [build_entries |-> Append(sel.build_entries, listed[i]),
                          build_num_set |-> sel.build_num_set \cup {listed[i]}])
         ELSE add_unseen(listed, i + 1, sel)

\* "for workflow in workflows" from the k-th workflow on, limit=1 in every call
RECURSIVE latest_builds_loop(_, _, _, _)
latest_builds_loop(table, workflows, k, sel) ==
    IF k > Len(workflows) THEN sel
    ELSE latest_builds_loop(table, workflows, k + 1,
                            add_unseen(list_latest_builds(table, workflows[k], 1),
                                       1, sel))

\* The calls of list_latest_builds the loop makes, each with what it returned
latest_builds_calls(table, workflows, app_code, git_branch) ==
    [k \in 1..Len(workflows) |->
        [op |-> "list_latest_builds", app_code |-> app_code,
         branch |-> git_branch, workflow |-> workflows[k], limit |-> 1,
         result |-> list_latest_builds(table, workflows[k], 1)]]

\* list(set(build_nums)): the distinct numbers given, in the order the set
\* iterates, which the language leaves open
list_set(build_nums) ==
    {l \in SeqsUpTo(Range(build_nums), Len(build_nums)) :
        Range(l) = Range(build_nums) /\ NoDuplicates(l)}

\* The options of the builds group and the arguments of its apk command
CommandLine(b, g, st, pr, ts, nums) ==
    [command |-> "apk", branch |-> b, use_git_branch |-> g, staging |-> st,
     production |-> pr, targets |-> ts, build_nums |-> nums]

\* The pairs of --stag/--prod flags a download is run with
ApkFlags == OptBool \X OptBool

\* The command lines of a download: without build numbers, the targets and
\* flags choosing the workflows; with build numbers, which the workflows have
\* no part in, one target and the other options left at their defaults
ApkCommandLines ==
    {CommandLine(None, g, f[1], f[2], ts, <<>>) :
        g \in BOOLEAN, f \in ApkFlags, ts \in CommandTargetLists}
    \cup {CommandLine(None, FALSE, "None", "None", <<"sk">>, nums) :
             nums \in SeqsUpTo(ArgNums, MaxBuilds) \ {<<>>}}

\* The output directory before the command: empty, or holding a file left by
\* an earlier run
EmptyDir == [n \in {} |-> <<>>]

StaleDir == [n \in {"app.apk"} |-> <<"old1", "old2">>]

\* open(output_file, "ab"): the file is created when missing and kept otherwise.
open_ab(dir, name) ==
    IF name \in DOMAIN dir THEN dir
    ELSE [n \in DOMAIN dir \cup {name} |-> IF n = name THEN <<>> ELSE dir[n]]

\* open(output_file, "wb"): the file is created or truncated
open_wb(dir, name) ==
    [n \in DOMAIN dir \cup {name} |-> IF n = name THEN <<>> ELSE dir[n]]

\* file.write(chunk)
write(dir, name, chunk) == [dir EXCEPT ![name] = @ \o chunk]

\* response.raise_for_status() raises for a 4xx or 5xx status
raises_for_status(status_code) == status_code >= 400

RECURSIVE Flatten(_)
Flatten(chunks) ==
    IF chunks = <<>> THEN <<>> ELSE Head(chunks) \o Flatten(Tail(chunks))

\* The bytes of the running download that were received so far
Position == Len(Flatten(received))

Running == build_entries[Len(started)]

InitDownload ==
    /\ pc = "start"
    /\ usage_error = NoError
    /\ apps \in CommandApps
    /\ app_name \in CommandNames
    /\ git_info \in CommandGitInfos
    /\ app_entry = 0
    /\ args = NoArgs
    /\ FreshContext
    /\ IdleTrigger
    /\ index_calls = <<>>
    /\ build_entries = <<>>
    /\ files \in {EmptyDir, StaleDir}
    /\ started = <<>>
    /\ outcomes = <<>>
    /\ received = <<>>
    /\ records = ApkIndex
    /\ fetched = <<>>
    /\ template = ""
    /\ memo = Unset
    /\ add_memo_calls = <<>>

\* The builds group: initialize_branch and initialize_workflows on the options
Builds ==
    /\ pc = "start"
    /\ \E line \in ApkCommandLines :
          LET resolved == resolve_branch(line.branch, line.use_git_branch, git_info,
                                         _branch)
              computed == _compute_suffixes(line.staging, line.production)
              listed   == resolve_workflows(line.targets, computed.value)
          IN  /\ args' = line
              /\ _branch' = resolved.value
              /\ IF resolved.error # NoError
                 THEN /\ Fail(resolved.error)
                      /\ UNCHANGED <<_workflows, suffixes, stderr>>
                 ELSE IF computed.error # NoError
                 THEN /\ Fail(computed.error)
                      /\ UNCHANGED <<_workflows, suffixes, stderr>>
                 ELSE /\ pc' = "command"
                      /\ suffixes' = computed.value
                      /\ _workflows' = _workflows \o listed.workflows
                      /\ stderr' = stderr \o listed.warnings
                      /\ UNCHANGED usage_error
    /\ UNCHANGED <<resolveVars, branch, triggerVars, downloadVars, memoVars>>

\* builds_apk up to its download loop: context.app_entry, then the builds
\* selected, the latest of every workflow or the ones whose numbers were given
BuildsApk ==
    /\ pc = "command"
    /\ LET found == _find_app_entry(apps, git_info, app_name)
       IN  /\ app_entry' = found.entry
           /\ usage_error' = found.error
           /\ IF found.error # NoError
              THEN /\ pc' = "failed"
                   /\ UNCHANGED <<branch, index_calls, build_entries>>
              ELSE IF Len(args.build_nums) = 0
              THEN \E table \in LatestTables :
                      LET git_branch == IF branch = Unset THEN _branch ELSE branch
                          app_code   == apps[found.entry].app_code
                      IN  /\ pc' = "download"
                          /\ branch' = git_branch
                          /\ index_calls' =
                                 latest_builds_calls(table, _workflows, app_code,
                                                     git_branch)
                          /\ build_entries' =
                                 latest_builds_loop(table, _workflows, 1,
                                                    NoneSelected).build_entries
              ELSE \E build \in list_set(args.build_nums) :
                      /\ pc' = "download"
                      /\ index_calls' =
                             <<[op |-> "fetch_builds",
                                app_code |-> apps[found.entry].app_code,
                                build_nums |-> build]>>
                      /\ build_entries' \in fetch_builds(records, build)
                      /\ UNCHANGED branch
    /\ UNCHANGED <<apps, app_name, git_info, args, _branch, _workflows, suffixes,
                   stderr, triggerVars, files, started, outcomes, received, memoVars>>

\* One turn of "for build_entry in build_entries" up to the first chunk:
\* fetch_apk, requests.get, raise_for_status, open(output_file, "wb")
StartDownload ==
    /\ pc = "download"
    /\ Len(started) < Len(build_entries)
    /\ \E status_code \in {200, 404} :
          LET artifact_entry == fetch_apk(build_entries[Len(started) + 1])
          IN  /\ started' = Append(started, build_entries[Len(started) + 1])
              /\ received' = <<>>
              /\ IF raises_for_status(status_code)
                 THEN /\ outcomes' = Append(outcomes, "http_error")
                      /\ pc' = "failed"
                      /\ UNCHANGED files
                 ELSE /\ files' = open_wb(files, artifact_entry.name)
                      /\ pc' = "streaming"
                      /\ UNCHANGED outcomes
    /\ UNCHANGED <<usage_error, resolveVars, contextVars, triggerVars, index_calls,
                   build_entries, memoVars>>

\* One turn of "for chunk in response.iter_content(...)": the next bytes of the
\* artifact arrive, none to MaxChunk of them; an empty chunk is not written
ReceiveChunk ==
    /\ pc = "streaming"
    /\ LET artifact_entry == fetch_apk(Running)
           left == artifact_entry.byte_size - Position
       IN  /\ left > 0
           /\ \E n \in 0..(IF left < MaxChunk THEN left ELSE MaxChunk) :
                 LET chunk == SubSeq(artifact_entry.data, Position + 1, Position + n)
                 IN  IF chunk # <<>>
                     THEN /\ files' = write(files, artifact_entry.name, chunk)
                          /\ received' = Append(received, chunk)
                     ELSE UNCHANGED <<files, received>>
    /\ UNCHANGED <<pc, usage_error, resolveVars, contextVars, triggerVars,
                   index_calls, build_entries, started, outcomes, memoVars>>

\* The connection breaks while bytes are still to come: iter_content raises
StreamError ==
    /\ pc = "streaming"
    /\ fetch_apk(Running).byte_size - Position > 0
    /\ outcomes' = Append(outcomes, "stream_error")
    /\ pc' = "failed"
    /\ UNCHANGED <<usage_error, resolveVars, contextVars, triggerVars, index_calls,
                   build_entries, files, started, received, memoVars>>

\* The stream ends after the last byte: the file is closed and the loop goes on
FinishDownload ==
    /\ pc = "streaming"
    /\ fetch_apk(Running).byte_size - Position = 0
    /\ outcomes' = Append(outcomes, "ok")
    /\ pc' = "download"
    /\ UNCHANGED <<usage_error, resolveVars, contextVars, triggerVars, index_calls,
                   build_entries, files, started, received, memoVars>>

\* Every selected build was downloaded: the command returns
DownloadReturn ==
    /\ pc = "download"
    /\ Len(started) = Len(build_entries)
    /\ pc' = "done"
    /\ UNCHANGED <<usage_error, resolveVars, contextVars, triggerVars, downloadVars,
                   memoVars>>

NextDownload ==
    \/ Builds
    \/ BuildsApk
    \/ StartDownload
    \/ ReceiveChunk
    \/ StreamError
    \/ FinishDownload
    \/ DownloadReturn

SpecDownload == InitDownload /\ [][NextDownload]_vars

\* The bytes the output file of a build holds, none when there is no such file
FileOf(build_num) ==
    IF fetch_apk(build_num).name \in DOMAIN files
    THEN files[fetch_apk(build_num).name]
    ELSE <<>>

IsPrefix(a, b) == Len(a) <= Len(b) /\ SubSeq(b, 1, Len(a)) = a

\* The downloads run one at a time in list order, and one that failed is the last
DownloadsInOrder ==
    /\ Len(started) <= Len(build_entries)
    /\ started = SubSeq(build_entries, 1, Len(started))
    /\ Len(outcomes) = IF pc = "streaming" THEN Len(started) - 1 ELSE Len(started)
    /\ \A k \in 1..Len(outcomes) :
          outcomes[k] # "ok" => (k = Len(started) /\ pc = "failed")
    /\ pc = "done" =>
          /\ Len(outcomes) = Len(build_entries)
          /\ \A k \in 1..Len(outcomes) : outcomes[k] = "ok"

Failed(how) ==
    /\ pc = "failed"
    /\ outcomes # <<>>
    /\ outcomes[Len(outcomes)] = how

JustCompleted ==
    /\ pc = "download"
    /\ outcomes # <<>>

\* The statement of C9 as written: whichever way the download of a build fails,
\* its output file holds only the chunks received before the failure and is
\* shorter than the declared size.
C9_FailedFileIsPartial ==
    /\ DownloadsInOrder
    /\ (Failed("http_error") \/ Failed("stream_error")) =>
          /\ FileOf(Running) = Flatten(received)
          /\ Len(FileOf(Running)) < fetch_apk(Running).byte_size
    /\ JustCompleted =>
          /\ FileOf(Running) = Flatten(received)
          /\ Len(FileOf(Running)) = fetch_apk(Running).byte_size

\* C9 (amended): the selected builds are downloaded one after another in list
\* order and no download is started after one that failed. When the stream
\* fails while bytes are still to come, the output file of that build holds
\* only the chunks received before the failure, in arrival order, and is
\* shorter than the declared size. When the request fails with an error HTTP
\* status, the output file is neither opened nor truncated: it keeps what it
\* held before. When a download completes, the file holds every received
\* non-empty chunk, the full declared byte count.
C9_SequentialDownload ==
    /\ [](/\ DownloadsInOrder
          /\ \A c \in Range(received) : c # <<>>
          /\ Failed("stream_error") =>
                /\ FileOf(Running) = Flatten(received)
                /\ IsPrefix(FileOf(Running), fetch_apk(Running).data)
                /\ Len(FileOf(Running)) < fetch_apk(Running).byte_size
          /\ Failed("http_error") => received = <<>>
          /\ JustCompleted =>
                /\ FileOf(Running) = Flatten(received)
                /\ FileOf(Running) = fetch_apk(Running).data
                /\ Len(FileOf(Running)) = fetch_apk(Running).byte_size)
    /\ [][Failed("http_error")' => files' = files]_vars
    /\ [][pc = "failed" => UNCHANGED vars]_vars

\* The second download breaks after its first chunk: the first file is whole,
\* the second partial
C9_Witness ==
    /\ Failed("stream_error")
    /\ outcomes = <<"ok", "stream_error">>
    /\ received # <<>>
    /\ Len(FileOf(Running)) < fetch_apk(Running).byte_size
    /\ Len(FileOf(started[1])) = fetch_apk(started[1]).byte_size

\* builds_apk has reached its download loop: the builds are selected
Selected ==
    \/ pc \in {"download", "streaming", "done"}
    \/ pc = "failed" /\ started # <<>>

\* Every build list_latest_builds returned to the command, in call order
ListedBuilds == Flatten([k \in DOMAIN index_calls |-> index_calls[k].result])

\* The positions of a list holding a value that no earlier position holds
FirstPositions(s) == {i \in DOMAIN s : \A j \in 1..(i - 1) : s[j] # s[i]}

\* l is s without its repeated values: the first occurrences, in the order of s
IsDeduplicated(l, s) ==
    /\ Len(l) = Cardinality(FirstPositions(s))
    /\ \E f \in [DOMAIN l -> DOMAIN s] :
          /\ \A a, b \in DOMAIN l : a < b => f[a] < f[b]
          /\ {f[a] : a \in DOMAIN l} = FirstPositions(s)
          /\ \A a \in DOMAIN l : l[a] = s[f[a]]

\* C11: without build numbers the command asks the index for the latest build
\* (limit 1) of every resolved workflow, once per element of the workflow list
\* and in its order, and selects the builds listed with every repeated build
\* number removed, first occurrences kept in order: no build number is selected
\* or downloaded twice, whichever workflows list the same build. With build
\* numbers the index is asked once, for the distinct numbers given, each once.
C11_LatestBuildsOnce ==
    Selected =>
        /\ args.build_nums = <<>> =>
              /\ Len(index_calls) = Len(_workflows)
              /\ \A k \in DOMAIN index_calls :
                    /\ index_calls[k].op = "list_latest_builds"
                    /\ index_calls[k].workflow = _workflows[k]
                    /\ index_calls[k].limit = 1
                    /\ index_calls[k].branch = _branch
                    /\ index_calls[k].app_code = apps[app_entry].app_code
                    /\ Len(index_calls[k].result) <= 1
              /\ IsDeduplicated(build_entries, ListedBuilds)
              /\ NoDuplicates(build_entries)
              /\ NoDuplicates(started)
              /\ Range(started) \subseteq Range(build_entries)
              /\ pc = "done" => started = build_entries
        /\ args.build_nums # <<>> =>
              /\ Len(index_calls) = 1
              /\ index_calls[1].op = "fetch_builds"
              /\ index_calls[1].app_code = apps[app_entry].app_code
              /\ NoDuplicates(index_calls[1].build_nums)
              /\ Range(index_calls[1].build_nums) = Range(args.build_nums)

\* Two different workflows list the same latest build: it is downloaded once
C11_Witness ==
    /\ pc = "done"
    /\ args.build_nums = <<>>
    /\ Len(index_calls) = 2
    /\ index_calls[1].workflow # index_calls[2].workflow
    /\ index_calls[1].result = <<1>>
    /\ index_calls[2].result = <<1>>
    /\ build_entries = <<1>>
    /\ started = <<1>>
    /\ outcomes = <<"ok">>

-----------------------------------------------------------------------------
(* The memo command, builds_memo *)

\* The build index before the command: builds 1 and 2 exist, build 3 does not
IndexStates ==
    { [b \in {1, 2} |-> IF b = 1 THEN "first memo" ELSE "second memo"],
      [b \in {1, 2} |-> IF b = 1 THEN None ELSE "second memo"] }

\* The values of --build, repeated or unknown numbers included
BuildArgs == SeqsUpTo(BuildNums, MaxBuilds)

\* add_memo(app_code, build, edit, memo) on the index: the memo of every given
\* build that exists is replaced (edit) or extended
add_memo(index, build, edit, text) ==
    [b \in DOMAIN index |->
        IF b \notin Range(build) THEN index[b]
        ELSE IF edit \/ ~TruthyStr(index[b]) THEN text
        ELSE index[b] \o "\n" \o text]

\* template = "", or the memo of the first build fetched in edit mode
memo_template(edit, builds, index) ==
    IF edit /\ builds # <<>> THEN index[builds[1]] ELSE ""

\* Only an editor closed without saving taken for "no memo".
memo_given_unless_none(text) == text # None

\* "if not memo" is false: the editor returned a text that is not empty
memo_given(text) == TruthyStr(text)

\* click.edit(template): None when the editor is closed without saving, the
\* saved text otherwise
EditorResults(text) == {None, "", "new memo"} \cup {text}

InitMemo ==
    /\ InitContext
    /\ records \in IndexStates
    /\ fetched = <<>>
    /\ template = ""
    /\ memo = Unset
    /\ add_memo_calls = <<>>

\* builds_memo up to click.edit: context.app_entry, the template fetched in
\* edit mode, the editor opened on it
BuildsMemo ==
    /\ pc = "start"
    /\ LET found == _find_app_entry(apps, git_info, app_name)
       IN  /\ app_entry' = found.entry
           /\ usage_error' = found.error
           /\ IF found.error # NoError
              THEN /\ pc' = "failed"
                   /\ UNCHANGED <<args, fetched, template>>
              ELSE /\ pc' = "editing"
                   /\ \E build \in BuildArgs, edit \in BOOLEAN :
                         /\ args' = [command |-> "memo", build |-> build,
                                     edit |-> edit]
                         /\ fetched' \in IF edit THEN fetch_builds(records, build)
                                         ELSE {<<>>}
                         /\ template' = memo_template(edit, fetched', records)
    /\ UNCHANGED <<apps, app_name, git_info, _branch, branch, _workflows, suffixes,
                   stderr, triggerVars, downloadVars, records, memo,
                   add_memo_calls>>

\* The editor session ends: the warning, or the call of add_memo
EditorClosed ==
    /\ pc = "editing"
    /\ \E text \in EditorResults(template) :
          /\ memo' = text
          /\ IF ~memo_given(text)
             THEN /\ stderr' = Append(stderr, "No memo specified")
                  /\ UNCHANGED <<records, add_memo_calls>>
             ELSE /\ add_memo_calls' =
                        Append(add_memo_calls,
                               [app_code |-> apps[app_entry].app_code,
                                build |-> args.build, edit |-> args.edit,
                                memo |-> text])
                  /\ records' = add_memo(records, args.build, args.edit, text)
                  /\ UNCHANGED stderr
    /\ pc' = "done"
    /\ UNCHANGED <<usage_error, resolveVars, args, _branch, branch, _workflows,
                   suffixes, triggerVars, downloadVars, fetched, template>>

NextMemo == BuildsMemo \/ EditorClosed

SpecMemo == InitMemo /\ [][NextMemo]_vars

\* C10: add_memo is called exactly when the editor returns a text that is not
\* empty; when the text is empty or the editor was closed without saving, a
\* warning is shown and no build record changes. In edit mode the editor is
\* opened on the memo of the first build fetched (on the empty template when
\* none is fetched); outside edit mode the template is always empty.
C10_MemoOnlyWhenGiven ==
    /\ [](/\ pc \in {"start", "failed", "editing"} =>
                (add_memo_calls = <<>> /\ stderr = <<>>)
          /\ pc = "editing" =>
                template = IF args.edit /\ fetched # <<>>
                           THEN records[fetched[1]] ELSE ""
          /\ (pc \in {"editing", "done"} /\ ~args.edit) => template = ""
          /\ pc = "done" =>
                /\ Len(add_memo_calls) = 1 <=> (memo # None /\ memo # "")
                /\ Len(add_memo_calls) <= 1
                /\ (memo = None \/ memo = "") <=> stderr = <<"No memo specified">>
                /\ add_memo_calls # <<>> =>
                      add_memo_calls[1] =
                          [app_code |-> apps[app_entry].app_code,
                           build |-> args.build, edit |-> args.edit, memo |-> memo])
    /\ [][(pc' = "done" /\ (memo' = None \/ memo' = "")) => records' = records]_vars

\* In edit mode the existing memo was cleared in the editor: nothing is updated
C10_Witness ==
    /\ pc = "done"
    /\ args.edit
    /\ fetched # <<>>
    /\ template = "second memo"
    /\ memo = ""
    /\ add_memo_calls = <<>>
    /\ stderr = <<"No memo specified">>

=============================================================================
